---- MODULE Spec2Model ----
(***************************************************************************)
(* Stream supervision and recording rotation of src/app.py (RTSPStreamer,  *)
(* initialize_streaming, cleanup_on_exit).                                 *)
(*                                                                         *)
(* The frame-extraction side (_read_frames, _monitor_health) is modelled    *)
(* one action per code segment between two blocking calls (time.sleep,     *)
(* Popen.wait): a sleep is a point where any other thread may run and      *)
(* where the clock may advance. Its threads hold no data of their own      *)
(* besides their position, so they are kept as a count per position.       *)
(* The recording side (_recording_loop, _stop_recording_gracefully,        *)
(* stop_recording) is modelled one action per statement that reads or      *)
(* writes self.recording or self.recording_process, which no lock guards.  *)
(*                                                                         *)
(* The stats report of _monitor_health (src/app.py:361-375) only prints    *)
(* and resets counters that nothing else reads; it is not part of the      *)
(* monitor actions below.                                                  *)
(***************************************************************************)
EXTENDS Integers, FiniteSets, Sequences, TLC

\* ------------------------------------------------------------------ bounds
\* Restart attempts of the frame-extraction subprocess that a run may make.
MaxRestarts == 3
\* Clock: time.time() is sampled every TimeStep seconds, MaxSteps times.
TimeStep == 10
MaxSteps == 8

\* start_recording() calls that start a _recording_loop thread, and
\* recording subprocesses that a run may spawn.
MaxLoops == 2
MaxRecProcs == 3
\* Threads that call initialize_streaming(), and calls each of them makes.
NumCallers == 2
MaxCalls == 2
\* Largest rotation threshold, in MB, of the rotation scenario.
MaxThresholdMb == 10
\* Threads that call cleanup_on_exit().
NumStoppers == 2
\* Frames received, and frames emitted, that the statistics slice follows
\* between two reports.
MaxCount == 2
\* Frame files a subprocess writes in a run, and the number of frames
\* written before a run that starts late in the life of a subprocess.
MaxWrites == 6
LateStart == 9994

\* time.time() is far from 0, the "no frame yet" value of last_frame_time.
StartTime == 10 * TimeStep
MaxTime == StartTime + MaxSteps * TimeStep

\* ------------------------------------------------------- program constants
FRAME_TIMEOUT == 30
FRAME_TIMEOUT_RESTART == 60
WARN_INTERVAL == 60
FRESH_WINDOW == 10
MIN_FRAME_LEN == 1000
DEFAULT_MAX_FILE_SIZE_MB == 10
NAME_WIDTH == 4
KEEP_FRAMES == 5
STATS_INTERVAL == 60
BACKOFF == 10
\* Byte lengths of the frame files the reader may find (len(frame_data)).
FrameLens == {MIN_FRAME_LEN, MIN_FRAME_LEN + 1}

VARIABLES
    now,                      \* time.time()
    streaming,                \* self.streaming
    recording,                \* self.recording
    ffmpeg_process,           \* self.ffmpeg_process: "None", or the state of
                              \* the subprocess it refers to
    orphans,                  \* running frame-extraction subprocesses that
                              \* self.ffmpeg_process no longer refers to
    frame_buffer,             \* len(self.frame_buffer)
    last_frame_time,          \* self.last_frame_time
    last_frame_warning_time,  \* self.last_frame_warning_time
    ffmpeg_restart_count,     \* self.ffmpeg_restart_count
    mon,                      \* _monitor_health threads at each position
    readThreads,              \* number of running _read_frames threads
    caller,                   \* the thread that calls start_recording,
                              \* stop_recording and stop_streaming
    got,                      \* the last get_frame() call and its result
    \* history variables, read by the properties only
    lastPublish,              \* time of the last published frame, 0 if none
    episodeRestarts,          \* start_ffmpeg_process calls of the stall path
                              \* since the last published frame
    attempts,                 \* restarts begun by a monitor thread since the
                              \* last call of start_ffmpeg_process
    \* the recording side
    recording_process,        \* self.recording_process: 0 is None, else a pid
    rproc,                    \* state of each recording subprocess
    loop,                     \* the _recording_loop threads
    max_file_size_mb,         \* recording_config['max_file_size_mb']
    \* history variables, read by the properties only
    stopped,                  \* progress of a stop_recording() call that was
                              \* made during an active recording
    badRotation,              \* a loop spawned its next subprocess after a
                              \* rotation while the previous one still ran
    \* module level of src/app.py
    initialized,              \* _initialized
    streamer,                 \* "streamer is not None"
    lock,                     \* the caller inside "with _initialization_lock",
                              \* 0 if none
    ic,                       \* each initialize_streaming caller: position
                              \* and number of calls made
    \* history variables, read by the properties only
    constructed,              \* RTSPStreamer objects constructed so far
    startCalls,               \* start_streaming() calls so far
    skipped,                  \* initialize_streaming() calls that returned at
                              \* the "already initialized" test
    \* the scratch directory self.temp_dir and the _read_frames threads
    files,                    \* frame numbers of the files in self.temp_dir
    small,                    \* those of at most MIN_FRAME_LEN bytes
    written,                  \* number of the last frame the subprocess wrote
    readers,                  \* the _read_frames threads
    \* history variables, read by the properties only
    heldNo,                   \* frame number of the frame in frame_buffer; 0
                              \* if none, or one of an earlier directory
    regressed,                \* a published frame replaced a newer one
    \* the callers of cleanup_on_exit, and the /status request
    handler,                  \* the threads that call cleanup_on_exit
    stops,                    \* stop_streaming() calls that have returned
    status,                   \* the thread serving a /status request
    raised,                   \* calls that ended with an exception
    \* the statistics of the streamer and the threads that write them
    frames_received,          \* self.frames_received
    frames_emitted,           \* self.frames_emitted
    last_stats_report,        \* self.last_stats_report
    self_lock,                \* the thread inside "with self.lock", or "none"
    pub,                      \* a _read_frames thread while it publishes
    emit,                     \* the emit_frames_loop thread in _emit_frame
    \* the session: what a run of the streamer leaves behind
    stderrThreads,            \* number of running _monitor_stderr threads
    temp_dir,                 \* the directory self.temp_dir names: "None",
                              \* "present" or "removed"
    old_dirs,                 \* scratch directories on disk that
                              \* self.temp_dir no longer names
    \* history variables, read by the properties only
    lastWarn,                 \* time of the last stall warning, 0 if none
    prevWarn,                 \* time of the one before it, 0 if none
    restart,                  \* what a monitor thread printed, and the
                              \* backoff it took, after its last restart
    started                   \* what the last start_recording() returned

healthVars == <<now, streaming, ffmpeg_process, orphans, frame_buffer,
                last_frame_time, last_frame_warning_time,
                ffmpeg_restart_count, mon, readThreads, caller, got,
                lastPublish, episodeRestarts, attempts>>

recVars == <<recording_process, rproc, loop, max_file_size_mb, stopped,
             badRotation>>

\* The part of the frame-extraction side that the recording side leaves alone.
frameVars == <<now, orphans, frame_buffer, last_frame_time,
               last_frame_warning_time, ffmpeg_restart_count, mon,
               readThreads, got, lastPublish, episodeRestarts, attempts>>

initVars == <<initialized, streamer, lock, ic, constructed, startCalls,
              skipped>>

dirVars == <<files, small, written, readers, heldNo, regressed>>

lifeVars == <<handler, stops, status, raised>>

statVars == <<frames_received, frames_emitted, last_stats_report, self_lock,
              pub, emit>>

sessVars == <<stderrThreads, temp_dir, old_dirs, lastWarn, prevWarn, restart,
              started>>

vars == <<healthVars, recording, recVars, initVars, dirVars, lifeVars,
          statVars, sessVars>>

\* ---------------------------------------------------------- subprocesses
\* A Popen handle: "alive", "term" (alive, SIGTERM delivered), "exited" (on
\* its own) or "killed" (by a signal). Popen.poll() is None while it runs.
Running(p) == p \in {"alive", "term"}

\* Popen.terminate(): SIGTERM is delivered; the process exits later, if ever.
Terminate(p) == IF p = "alive" THEN "term" ELSE p

\* Popen.kill(): SIGKILL ends the process.
Kill(p) == IF Running(p) THEN "killed" ELSE p

\* Frame-extraction subprocesses that are running.
AliveProcs == orphans + (IF Running(ffmpeg_process) THEN 1 ELSE 0)

\* The subprocess self.ffmpeg_process refers to exits: on its own, or after
\* SIGTERM.
ProcExit ==
    /\ Running(ffmpeg_process)
    /\ ffmpeg_process' = IF ffmpeg_process = "term" THEN "killed" ELSE "exited"
    /\ UNCHANGED <<now, streaming, recording, orphans, frame_buffer,
                   last_frame_time, last_frame_warning_time,
                   ffmpeg_restart_count, mon, readThreads, caller, got,
                   lastPublish, episodeRestarts, attempts>>
    /\ UNCHANGED <<recVars, initVars, dirVars, lifeVars, statVars, sessVars>>

\* A subprocess that is no longer referred to exits.
OrphanExit ==
    /\ orphans > 0
    /\ orphans' = orphans - 1
    /\ UNCHANGED <<now, streaming, recording, ffmpeg_process, frame_buffer,
                   last_frame_time, last_frame_warning_time,
                   ffmpeg_restart_count, mon, readThreads, caller, got,
                   lastPublish, episodeRestarts, attempts>>
    /\ UNCHANGED <<recVars, initVars, dirVars, lifeVars, statVars, sessVars>>

\* The clock advances.
Tick ==
    /\ now + TimeStep <= MaxTime
    /\ now' = now + TimeStep
    /\ UNCHANGED <<streaming, recording, ffmpeg_process, orphans,
                   frame_buffer, last_frame_time, last_frame_warning_time,
                   ffmpeg_restart_count, mon, readThreads, caller, got,
                   lastPublish, episodeRestarts, attempts>>
    /\ UNCHANGED <<recVars, initVars, dirVars, lifeVars, statVars, sessVars>>

\* ---------------------------------------------------- the scratch directory
ReaderIds == 1..(MaxRestarts + 1)

\* A _read_frames thread: its position ("glob": at the head of the loop,
\* "read": in the sleep before it opens the newest file), its
\* last_frame_number, the frame_files it listed (snap), whether the newest
\* of them is longer than MIN_FRAME_LEN bytes, and whether self.temp_dir
\* has been replaced since it listed them.
NoReader == [pc |-> "none", last |-> 0, snap |-> {}, big |-> FALSE,
             stale |-> FALSE]

NewReader == [NoReader EXCEPT !.pc = "glob"]

RunningReaders == {r \in ReaderIds : readers[r].pc \in {"glob", "read"}}

\* The decimal digits of n.
RECURSIVE Digits(_)
Digits(n) == IF n < 10 THEN <<n>> ELSE Append(Digits(n \div 10), n % 10)

\* The digits of the file name "frame_%04d.jpg" of frame n.
FrameName(n) ==
    LET d == Digits(n)
        pad == NAME_WIDTH - Len(d)
    IN  IF pad <= 0 THEN d
        ELSE [i \in 1..NAME_WIDTH |-> IF i <= pad THEN 0 ELSE d[i - pad]]

\* The order of list.sort() on two paths of one directory, by their digits:
\* character by character, the "." that follows the digits of the shorter
\* name being less than every digit.
RECURSIVE NameLess(_, _)
NameLess(a, b) ==
    IF a = <<>> THEN b # <<>>
    ELSE IF b = <<>> THEN FALSE
    ELSE IF Head(a) # Head(b) THEN Head(a) < Head(b)
    ELSE NameLess(Tail(a), Tail(b))

\* "int(latest_frame.split("_")[-1].split(".")[0])"
RECURSIVE FrameNumber(_)
FrameNumber(d) ==
    IF d = <<>> THEN 0
    ELSE 10 * FrameNumber(SubSeq(d, 1, Len(d) - 1)) + d[Len(d)]

\* The frame numbers of a run, and the order of their file names.
FrameNos ==
    (0..MaxWrites) \cup ((LateStart - KEEP_FRAMES)..(LateStart + MaxWrites))

NameOrder ==
    {p \in FrameNos \X FrameNos : NameLess(FrameName(p[1]), FrameName(p[2]))}

NumberOf == [n \in FrameNos |-> FrameNumber(FrameName(n))]

Before(n, m) == <<n, m>> \in NameOrder

\* "frame_files[-1]" of the sorted listing S, as its frame number.
LatestFrame(S) ==
    NumberOf[CHOOSE n \in S : \A m \in S \ {n} : Before(m, n)]

OldFiles_keep_six(S) ==
    {n \in S : Cardinality({m \in S : Before(n, m)}) > KEEP_FRAMES}

\* "frame_files[:-5]" of the sorted listing S.
OldFiles(S) ==
    {n \in S : Cardinality({m \in S : Before(n, m)}) >= KEEP_FRAMES}

\* "self.temp_dir = tempfile.mkdtemp(...)" of start_ffmpeg_process and,
\* when Popen succeeded, the start of a _read_frames thread: the directory
\* is a new one, the former one and its files stay where they are.
MakeTempDir(ok) ==
    /\ temp_dir' = "present"
    /\ old_dirs' = old_dirs + (IF temp_dir = "present" THEN 1 ELSE 0)
    /\ files' = {}
    /\ small' = {}
    /\ written' = 0
    /\ heldNo' = 0
    /\ LET marked == [r \in ReaderIds |->
                         IF readers[r].pc = "read"
                         THEN [readers[r] EXCEPT !.stale = TRUE]
                         ELSE readers[r]]
           free == {r \in ReaderIds : readers[r].pc = "none"}
       IN  readers' = IF ok
                      THEN [marked EXCEPT ![CHOOSE r \in free :
                                              \A q \in free : r <= q] = NewReader]
                      ELSE marked

\* "if self.temp_dir and os.path.exists(self.temp_dir):
\* shutil.rmtree(self.temp_dir)" of stop_streaming: the directory that
\* self.temp_dir names goes with its files; the attribute is left as it is.
RemoveTempDir ==
    /\ temp_dir' = IF temp_dir = "present" THEN "removed" ELSE temp_dir
    /\ files' = {}
    /\ small' = {}

\* The frames the model lets a subprocess write.
CanWrite ==
    \/ written < MaxWrites
    \/ written >= LateStart /\ written < LateStart + MaxWrites

\* The subprocess writes its next frame file; isSmall: of at most
\* MIN_FRAME_LEN bytes.
WriteFrame(isSmall) ==
    /\ Running(ffmpeg_process)
    /\ CanWrite
    /\ written' = written + 1
    /\ files' = files \cup {written + 1}
    /\ small' = IF isSmall THEN small \cup {written + 1} ELSE small
    /\ UNCHANGED <<healthVars, recording, recVars, initVars, lifeVars, statVars, sessVars,
                   readers, heldNo, regressed>>

\* The head of the loop of _read_frames down to "time.sleep(0.1)": the
\* thread ends, or finds no file newer than last_frame_number and sleeps
\* 0.2 s, or has listed the directory and goes on to read its newest file.
ReaderGlob(r) ==
    /\ readers[r].pc = "glob"
    /\ IF ~(streaming /\ Running(ffmpeg_process))
       THEN /\ readers' = [readers EXCEPT ![r] = [NoReader EXCEPT !.pc = "done"]]
            /\ readThreads' = readThreads - 1
       ELSE /\ files # {}
            /\ LatestFrame(files) > readers[r].last
            /\ readers' = [readers EXCEPT ![r].pc = "read", ![r].snap = files,
                                          ![r].big = LatestFrame(files) \notin small,
                                          ![r].stale = FALSE]
            /\ UNCHANGED readThreads
    /\ UNCHANGED <<now, streaming, ffmpeg_process, orphans, frame_buffer,
                   last_frame_time, last_frame_warning_time,
                   ffmpeg_restart_count, mon, caller, got, lastPublish,
                   episodeRestarts, attempts, recording, recVars, initVars,
                   lifeVars, statVars, sessVars, files, small, written, heldNo, regressed>>

\* After the sleep: the newest listed file is opened (when it is gone the
\* exception is printed and the loop goes on) and, when longer than
\* MIN_FRAME_LEN bytes, published under self.lock; then last_frame_number is
\* set and the listed files but the last KEEP_FRAMES are removed.
ReaderRead(r) ==
    /\ readers[r].pc = "read"
    /\ LET me == readers[r]
           latest == LatestFrame(me.snap)
           found == me.stale \/ latest \in files
       IN  IF found /\ me.big
           THEN /\ frame_buffer' = MIN_FRAME_LEN + 1
                /\ last_frame_time' = now
                /\ lastPublish' = now
                /\ episodeRestarts' = 0
                /\ heldNo' = IF me.stale THEN 0 ELSE latest
                /\ regressed' = (regressed \/ IF me.stale THEN heldNo > 0
                                                          ELSE latest < heldNo)
                /\ readers' = [readers EXCEPT ![r] = [NewReader EXCEPT !.last = latest]]
                /\ files' = IF me.stale THEN files ELSE files \ OldFiles(me.snap)
                /\ small' = IF me.stale THEN small ELSE small \ OldFiles(me.snap)
           ELSE /\ readers' = [readers EXCEPT ![r] = [NewReader EXCEPT !.last = me.last]]
                /\ UNCHANGED <<frame_buffer, last_frame_time, lastPublish,
                               episodeRestarts, heldNo, regressed, files, small>>
    /\ UNCHANGED <<now, streaming, ffmpeg_process, orphans,
                   last_frame_warning_time, ffmpeg_restart_count, mon,
                   readThreads, caller, got, attempts, recording, recVars,
                   initVars, lifeVars, statVars, sessVars, written>>

\* --------------------------------------------------- start_ffmpeg_process
\* start_ffmpeg_process: Popen either raises (ok = FALSE: the except clause
\* prints and the function returns normally) or yields a new subprocess
\* that replaces the handle in self.ffmpeg_process, followed by the start of
\* a _read_frames, a _monitor_stderr and a _monitor_health thread. monNext
\* is mon with the calling thread moved on.
StartFfmpegProcess(ok, monNext) ==
    /\ IF ok
       THEN /\ ffmpeg_process' = "alive"
            /\ orphans' = AliveProcs
            /\ mon' = [monNext EXCEPT !["tick"] = @ + 1]
            /\ readThreads' = readThreads + 1
            /\ stderrThreads' = stderrThreads + 1
       ELSE /\ mon' = monNext
            /\ UNCHANGED <<ffmpeg_process, orphans, readThreads,
                           stderrThreads>>
    /\ MakeTempDir(ok)
    /\ UNCHANGED regressed

\* --------------------------------------------------------- _monitor_stderr
\* A _monitor_stderr thread leaves its loop, "while self.ffmpeg_process and
\* self.ffmpeg_process.poll() is None": the attribute is None, or names a
\* subprocess that has exited. While the subprocess it names runs, the
\* thread stays in the loop, in readline().
MonitorStderr ==
    /\ stderrThreads > 0
    /\ ~Running(ffmpeg_process)
    /\ stderrThreads' = stderrThreads - 1
    /\ UNCHANGED <<healthVars, recording, recVars, initVars, dirVars,
                   lifeVars, statVars>>
    /\ UNCHANGED <<temp_dir, old_dirs, lastWarn, prevWarn, restart, started>>

\* ------------------------------------------------------------ _read_frames
\* The length test with the bound included: 1000 bytes pass.
PlausibleFrame_inclusive(len) == len >= MIN_FRAME_LEN

\* "if frame_data and len(frame_data) > 1000"
PlausibleFrame(len) == len > 0 /\ len > MIN_FRAME_LEN

\* One iteration of the poll loop of a _read_frames thread, with the
\* directory left out: the loop ends when streaming is off or
\* self.ffmpeg_process is None or has exited; else the newest file, when it
\* is new (len = 0: it is not) and longer than MIN_FRAME_LEN bytes, is
\* published under self.lock.
ReadFrames(len) ==
    /\ readThreads > 0
    /\ RunningReaders # {}
    /\ IF streaming /\ Running(ffmpeg_process)
       THEN /\ IF PlausibleFrame(len)
               THEN /\ frame_buffer' = len
                    /\ last_frame_time' = now
                    /\ lastPublish' = now
                    /\ episodeRestarts' = 0
               ELSE UNCHANGED <<frame_buffer, last_frame_time, lastPublish,
                                episodeRestarts>>
            /\ UNCHANGED <<readThreads, readers>>
       ELSE /\ len = 0
            /\ readThreads' = readThreads - 1
            /\ LET r == CHOOSE x \in RunningReaders :
                            \A y \in RunningReaders : x <= y
               IN  readers' = [readers EXCEPT ![r] = [NoReader EXCEPT !.pc = "done"]]
            /\ UNCHANGED <<frame_buffer, last_frame_time, lastPublish,
                           episodeRestarts>>
    /\ UNCHANGED <<now, streaming, recording, ffmpeg_process, orphans,
                   last_frame_warning_time, ffmpeg_restart_count, mon,
                   caller, got, attempts>>
    /\ UNCHANGED <<recVars, initVars, lifeVars, statVars, sessVars, files, small, written, heldNo,
                   regressed>>

\* --------------------------------------------------------- _monitor_health
\* A thread of mon moves from position a to position b.
Move(a, b) == [mon EXCEPT ![a] = @ - 1, ![b] = @ + 1]

\* Restart attempts begun so far; the model follows at most MaxRestarts.
RestartsBegun == ffmpeg_restart_count + mon["stall_kill"]

\* The stall test with the threshold of the warning left out: any time
\* without a frame counts as a stall.
StallDetected_early ==
    /\ last_frame_time > 0
    /\ now - last_frame_time > 0
    /\ Running(ffmpeg_process)

\* "if self.last_frame_time > 0: ... if time_since_last_frame >
\* FRAME_TIMEOUT_RESTART: if self.ffmpeg_process and poll() is None"
StallDetected ==
    /\ last_frame_time > 0
    /\ now - last_frame_time > FRAME_TIMEOUT_RESTART
    /\ Running(ffmpeg_process)

\* "elif self.ffmpeg_process and self.ffmpeg_process.poll() is not None":
\* the else branch of "if self.last_frame_time > 0".
CrashDetected ==
    /\ ~(last_frame_time > 0)
    /\ ffmpeg_process \in {"exited", "killed"}

\* The stall warning is printed: "if self.last_frame_time > 0: if
\* time_since_last_frame > FRAME_TIMEOUT: if current_time -
\* self.last_frame_warning_time > 60"; WarnTime is the value of
\* self.last_frame_warning_time after the check.
Warns ==
    /\ last_frame_time > 0
    /\ now - last_frame_time > FRAME_TIMEOUT
    /\ now - last_frame_warning_time > WARN_INTERVAL

WarnTime == IF Warns THEN now ELSE last_frame_warning_time

\* The warnings printed so far: a pass that prints one (printed) is the
\* last, and the last before it becomes the one before.
Warned(printed) ==
    /\ lastWarn' = IF printed THEN now ELSE lastWarn
    /\ prevWarn' = IF printed THEN lastWarn ELSE prevWarn

\* The positions of a monitor thread: "tick" in the sleep that ends a pass,
\* "warn" and "warn_stall" before the print of the warning, "stall_kill"
\* and "stall_start" in the sleeps of the stall path, "crash_start" in the
\* sleep of the crash path.
MonPcs == {"tick", "warn", "warn_stall", "stall_kill", "stall_start",
           "crash_start"}

\* One pass of the loop of a monitor thread, from "while self.streaming" to
\* the first sleep: the thread ends, or detects a stuck subprocess and
\* terminates it, or detects an exited one and counts a restart, or finds
\* nothing to restart and sleeps 5 s.
MonTick ==
    /\ mon["tick"] > 0
    /\ IF ~streaming
       THEN /\ mon' = [mon EXCEPT !["tick"] = @ - 1]
            /\ UNCHANGED <<ffmpeg_process, last_frame_warning_time,
                           ffmpeg_restart_count, episodeRestarts, attempts>>
       ELSE IF StallDetected
       THEN /\ RestartsBegun < MaxRestarts
            /\ last_frame_warning_time' = WarnTime
            /\ ffmpeg_process' = Terminate(ffmpeg_process)
            /\ mon' = Move("tick", "stall_kill")
            /\ attempts' = attempts + 1
            /\ UNCHANGED <<ffmpeg_restart_count, episodeRestarts>>
       ELSE IF CrashDetected
       THEN /\ RestartsBegun < MaxRestarts
            /\ ffmpeg_restart_count' = ffmpeg_restart_count + 1
            /\ mon' = Move("tick", "crash_start")
            /\ attempts' = attempts + 1
            /\ UNCHANGED <<ffmpeg_process, last_frame_warning_time,
                           episodeRestarts>>
       ELSE /\ last_frame_warning_time' = WarnTime
            /\ UNCHANGED <<ffmpeg_process, ffmpeg_restart_count, mon,
                           episodeRestarts, attempts>>
    /\ Warned(streaming /\ Warns)
    /\ UNCHANGED <<now, streaming, recording, orphans, frame_buffer,
                   last_frame_time, readThreads, caller, got, lastPublish>>
    /\ UNCHANGED <<recVars, initVars, dirVars, lifeVars, statVars>>
    /\ UNCHANGED <<stderrThreads, temp_dir, old_dirs, restart, started>>

\* The warning check of a pass, statement by statement. The test of line
\* 310 is passed: the thread is about to print, and it has computed
\* time_since_last_frame, which the test of line 315 will read.
MonWarnCheck ==
    /\ mon["tick"] > 0
    /\ streaming
    /\ Warns
    /\ mon' = Move("tick", IF now - last_frame_time > FRAME_TIMEOUT_RESTART
                           THEN "warn_stall" ELSE "warn")
    /\ UNCHANGED <<now, streaming, recording, ffmpeg_process, orphans,
                   frame_buffer, last_frame_time, last_frame_warning_time,
                   ffmpeg_restart_count, readThreads, caller, got,
                   lastPublish, episodeRestarts, attempts>>
    /\ UNCHANGED <<recVars, initVars, dirVars, lifeVars, statVars, sessVars>>

\* The warning is printed and "self.last_frame_warning_time = current_time";
\* then the pass goes on to its first sleep: with a time_since_last_frame
\* above FRAME_TIMEOUT_RESTART and a running subprocess the thread
\* terminates it, else it sleeps 5 s.
MonWarnPrint(from) ==
    /\ mon[from] > 0
    /\ last_frame_warning_time' = now
    /\ Warned(TRUE)
    /\ IF from = "warn_stall" /\ Running(ffmpeg_process)
       THEN /\ RestartsBegun < MaxRestarts
            /\ ffmpeg_process' = Terminate(ffmpeg_process)
            /\ mon' = Move(from, "stall_kill")
            /\ attempts' = attempts + 1
       ELSE /\ mon' = Move(from, "tick")
            /\ UNCHANGED <<ffmpeg_process, attempts>>
    /\ UNCHANGED <<now, streaming, recording, orphans, frame_buffer,
                   last_frame_time, ffmpeg_restart_count, readThreads,
                   caller, got, lastPublish, episodeRestarts>>
    /\ UNCHANGED <<recVars, initVars, dirVars, lifeVars, statVars>>
    /\ UNCHANGED <<stderrThreads, temp_dir, old_dirs, restart, started>>

\* Stall path after the first sleep(2): "if self.ffmpeg_process.poll() is
\* None: self.ffmpeg_process.kill()" (the AttributeError on None is caught
\* and printed), then "self.ffmpeg_restart_count += 1".
MonStallKill ==
    /\ mon["stall_kill"] > 0
    /\ ffmpeg_process' = Kill(ffmpeg_process)
    /\ ffmpeg_restart_count' = ffmpeg_restart_count + 1
    /\ mon' = Move("stall_kill", "stall_start")
    /\ UNCHANGED <<now, streaming, recording, orphans, frame_buffer,
                   last_frame_time, last_frame_warning_time, readThreads,
                   caller, got, lastPublish, episodeRestarts, attempts>>
    /\ UNCHANGED <<recVars, initVars, dirVars, lifeVars, statVars, sessVars>>

\* Whether a call of start_ffmpeg_process raises: its body is one try
\* block whose "except Exception" prints and falls off the end, so neither
\* a Popen that succeeds nor one that fails (ok = FALSE) does.
StartRaises(ok) == FALSE

\* No restart attempted yet.
NoRestart == [msg |-> "none", pause |-> 0]

\* "try: ... self.start_ffmpeg_process(); print(restarted successfully) ...
\* except Exception: print(Failed to restart, Will retry in 10 seconds);
\* time.sleep(10)": the message printed and the backoff taken, by whether
\* the call raised.
RestartReport(raises) ==
    IF raises THEN [msg |-> "retry", pause |-> BACKOFF]
              ELSE [msg |-> "success", pause |-> 0]

\* Stall path after the second sleep(2): start_ffmpeg_process(), then the
\* frame time tracking is reset unless the call raised.
MonStallStart(ok) ==
    /\ mon["stall_start"] > 0
    /\ StartFfmpegProcess(ok, Move("stall_start", "tick"))
    /\ restart' = RestartReport(StartRaises(ok))
    /\ IF StartRaises(ok)
       THEN UNCHANGED <<last_frame_time, last_frame_warning_time>>
       ELSE /\ last_frame_time' = 0
            /\ last_frame_warning_time' = 0
    /\ episodeRestarts' = episodeRestarts + 1
    /\ attempts' = 0
    /\ UNCHANGED <<now, streaming, recording, frame_buffer,
                   ffmpeg_restart_count, caller, got, lastPublish>>
    /\ UNCHANGED <<recVars, initVars, lifeVars, statVars, lastWarn, prevWarn,
                   started>>

\* Crash path after its sleep(2): start_ffmpeg_process().
MonCrashStart(ok) ==
    /\ mon["crash_start"] > 0
    /\ StartFfmpegProcess(ok, Move("crash_start", "tick"))
    /\ restart' = RestartReport(StartRaises(ok))
    /\ attempts' = 0
    /\ UNCHANGED <<now, streaming, recording, frame_buffer, last_frame_time,
                   last_frame_warning_time, ffmpeg_restart_count, caller,
                   got, lastPublish, episodeRestarts>>
    /\ UNCHANGED <<recVars, initVars, lifeVars, statVars, lastWarn, prevWarn,
                   started>>

\* --------------------------------------------------------------- get_frame
\* get_frame with the freshness test off by one: a frame exactly
\* FRESH_WINDOW seconds old still counts as fresh.
get_frame_inclusive ==
    IF now - last_frame_time <= FRESH_WINDOW /\ frame_buffer > MIN_FRAME_LEN
    THEN "bytes"
    ELSE "None"

\* get_frame(): the buffer when a frame was published less than
\* FRESH_WINDOW seconds ago and the buffer is longer than MIN_FRAME_LEN.
get_frame ==
    IF now - last_frame_time < FRESH_WINDOW /\ frame_buffer > MIN_FRAME_LEN
    THEN "bytes"
    ELSE "None"

\* A caller (emit_frames_loop, video_feed) takes the current frame. The call
\* is recorded with what was true when it was made: whether the last write
\* to last_frame_time was FRESH_WINDOW seconds ago or more (stale), whether
\* a frame was in fact published less than FRESH_WINDOW seconds ago
\* (published) and whether the buffer held a frame (held).
GetFrame ==
    /\ got' = [res |-> get_frame,
               stale |-> now - last_frame_time >= FRESH_WINDOW,
               published |-> lastPublish > 0 /\ now - lastPublish < FRESH_WINDOW,
               held |-> frame_buffer > 0]
    /\ UNCHANGED <<now, streaming, recording, ffmpeg_process, orphans,
                   frame_buffer, last_frame_time, last_frame_warning_time,
                   ffmpeg_restart_count, mon, readThreads, caller,
                   lastPublish, episodeRestarts, attempts>>
    /\ UNCHANGED <<recVars, initVars, dirVars, lifeVars, statVars, sessVars>>

\* ---------------------------------------------------------- stop_streaming
\* "self.streaming = False; if self.ffmpeg_process: terminate()"
StopStreamingBegin ==
    /\ caller.pc = "idle"
    /\ streaming' = FALSE
    /\ IF ffmpeg_process # "None"
       THEN /\ ffmpeg_process' = Terminate(ffmpeg_process)
            /\ caller' = [caller EXCEPT !.pc = "ss_wait"]
       ELSE /\ caller' = [caller EXCEPT !.pc = "ss_clean"]
            /\ UNCHANGED ffmpeg_process
    /\ UNCHANGED <<now, recording, orphans, frame_buffer,
                   last_frame_time, last_frame_warning_time,
                   ffmpeg_restart_count, mon, readThreads, got, lastPublish,
                   episodeRestarts, attempts>>
    /\ UNCHANGED <<recVars, initVars, dirVars, lifeVars, statVars, sessVars>>

\* "wait(timeout=5)", kill() when it times out, "self.ffmpeg_process = None".
\* Each statement reads self.ffmpeg_process again; the subprocess it refers
\* to has exited or is killed when the handle is dropped.
StopStreamingWait ==
    /\ caller.pc = "ss_wait"
    /\ ffmpeg_process' = "None"
    /\ caller' = [caller EXCEPT !.pc = "ss_clean"]
    /\ UNCHANGED <<now, streaming, recording, orphans, frame_buffer,
                   last_frame_time, last_frame_warning_time,
                   ffmpeg_restart_count, mon, readThreads, got, lastPublish,
                   episodeRestarts, attempts>>
    /\ UNCHANGED <<recVars, initVars, dirVars, lifeVars, statVars, sessVars>>

\* ---------------------------------------------------- recording subprocesses
LoopIds == 1..MaxLoops
RPids == 1..MaxRecProcs

\* A recording subprocess: "none" (not spawned), "alive", "stopping" (alive,
\* told to stop by 'q' on stdin or by SIGTERM) or "exited" (ended, by itself
\* or by SIGKILL).
RRunning(p) == p # 0 /\ rproc[p] \in {"alive", "stopping"}

RunningRecorders == {p \in RPids : RRunning(p)}

NextRPid == Cardinality({p \in RPids : rproc[p] # "none"}) + 1

\* stdin.write(b'q') and Popen.terminate(): the process is asked to stop.
Signal(rp, p) == IF rp[p] = "alive" THEN [rp EXCEPT ![p] = "stopping"] ELSE rp

\* Popen.kill()
RKill(rp, p) == IF rp[p] \in {"alive", "stopping"} THEN [rp EXCEPT ![p] = "exited"] ELSE rp

\* "MAX_FILE_SIZE = max_file_size_mb * 1024 * 1024"
MAX_FILE_SIZE == max_file_size_mb * 1024 * 1024

\* A recording subprocess exits: on its own, or because it was asked to.
RecExit(p) ==
    /\ RRunning(p)
    /\ rproc' = [rproc EXCEPT ![p] = "exited"]
    /\ UNCHANGED <<initVars, dirVars, lifeVars, statVars, sessVars, healthVars, recording, recording_process, loop,
                   max_file_size_mb, stopped, badRotation>>

\* ------------------------------------------------ _stop_recording_gracefully
\* A thread t = [pc, ret, tgt, ...] inside _stop_recording_gracefully: pc is
\* its position, ret the position to continue at after the return, tgt the
\* subprocess its pending Popen.wait waits for.
LadderPcs == {"g_check", "g_q", "g_w10", "g_w5", "g_kw", "g_fb", "g_fbw"}

Return(t) == [t EXCEPT !.pc = t.ret, !.tgt = 0]

\* An exception leaves _stop_recording_gracefully.
Raise(t) == [t EXCEPT !.pc = "raised", !.tgt = 0]

\* One step of thread t in _stop_recording_gracefully: the thread and the
\* subprocess states after it. Every statement reads self.recording_process
\* again; on None it raises AttributeError.
\*   g_check  "if not self.recording_process or poll() is not None: return"
\*   g_q      stdin.write(b'q'), flush (BrokenPipeError when the process has
\*            exited), then wait(timeout=10) begins
\*   g_w10    the wait returns, or times out: terminate(), wait(timeout=5)
\*   g_w5     the wait returns, or times out: kill()
\*   g_kw     wait() without timeout, on the handle as read again
\*   g_fb     "except Exception": terminate(), wait(timeout=5); when that
\*            raises, kill(), whose AttributeError leaves the function
\*   g_fbw    the wait returns, or times out: kill()
LadderStep(t) ==
    LET h == recording_process IN
    CASE t.pc = "g_check" ->
            IF h = 0 \/ ~RRunning(h)
            THEN [t |-> Return(t), rp |-> rproc]
            ELSE [t |-> [t EXCEPT !.pc = "g_q"], rp |-> rproc]
      [] t.pc = "g_q" ->
            IF h = 0 \/ ~RRunning(h)
            THEN [t |-> [t EXCEPT !.pc = "g_fb"], rp |-> rproc]
            ELSE [t |-> [t EXCEPT !.pc = "g_w10", !.tgt = h],
                  rp |-> Signal(rproc, h)]
      [] t.pc = "g_w10" ->
            IF ~RRunning(t.tgt)
            THEN [t |-> Return(t), rp |-> rproc]
            ELSE IF h = 0
            THEN [t |-> [t EXCEPT !.pc = "g_fb", !.tgt = 0], rp |-> rproc]
            ELSE [t |-> [t EXCEPT !.pc = "g_w5", !.tgt = h],
                  rp |-> Signal(rproc, h)]
      [] t.pc = "g_w5" ->
            IF ~RRunning(t.tgt)
            THEN [t |-> Return(t), rp |-> rproc]
            ELSE IF h = 0
            THEN [t |-> [t EXCEPT !.pc = "g_fb", !.tgt = 0], rp |-> rproc]
            ELSE [t |-> [t EXCEPT !.pc = "g_kw", !.tgt = 0],
                  rp |-> RKill(rproc, h)]
      [] t.pc = "g_kw" ->
            IF h = 0
            THEN [t |-> [t EXCEPT !.pc = "g_fb"], rp |-> rproc]
            ELSE IF ~RRunning(h)
            THEN [t |-> Return(t), rp |-> rproc]
            ELSE [t |-> t, rp |-> rproc]
      [] t.pc = "g_fb" ->
            IF h = 0
            THEN [t |-> Raise(t), rp |-> rproc]
            ELSE [t |-> [t EXCEPT !.pc = "g_fbw", !.tgt = h],
                  rp |-> Signal(rproc, h)]
      [] t.pc = "g_fbw" ->
            IF ~RRunning(t.tgt)
            THEN [t |-> Return(t), rp |-> rproc]
            ELSE IF h = 0
            THEN [t |-> Raise(t), rp |-> rproc]
            ELSE [t |-> Return(t), rp |-> RKill(rproc, h)]

\* ------------------------------------------------------------ _recording_loop
NoLoop == [pc |-> "none", ret |-> "none", tgt |-> 0, own |-> 0, fsize |-> 0,
           rot |-> FALSE, seen |-> FALSE]

\* A loop thread [pc, ret, tgt, own, fsize, rot, seen]: own is the
\* subprocess writing its output_path, fsize the size it last read for that
\* file, rot whether it left the monitor loop through the size-triggered
\* rotation, seen the value of self.streaming that the test at the head of
\* the outer loop read, from that test to the Popen it leads to.
LoopRunning(l) == loop[l].pc \notin {"none", "done"}

\* The outer loop under "while self.recording": self.streaming is read,
\* and the body is entered whatever it is.
LoopOuter_recording_only(l) ==
    /\ loop[l].pc = "outer"
    /\ IF recording
       THEN loop' = [loop EXCEPT ![l].pc = "spawn", ![l].seen = streaming]
       ELSE loop' = [loop EXCEPT ![l] = [NoLoop EXCEPT !.pc = "done"]]
    /\ UNCHANGED <<initVars, dirVars, lifeVars, statVars, sessVars,
                   healthVars, recording, recording_process, rproc,
                   max_file_size_mb, stopped, badRotation>>

\* "while self.recording and self.streaming" of the outer loop.
LoopOuter(l) ==
    /\ loop[l].pc = "outer"
    /\ IF recording /\ streaming
       THEN loop' = [loop EXCEPT ![l].pc = "spawn", ![l].seen = streaming]
       ELSE loop' = [loop EXCEPT ![l] = [NoLoop EXCEPT !.pc = "done"]]
    /\ UNCHANGED <<initVars, dirVars, lifeVars, statVars, sessVars, healthVars, recording, recording_process, rproc,
                   max_file_size_mb, stopped, badRotation>>

\* "self.recording_process = subprocess.Popen(...)" for a new output_path;
\* when Popen raises (ok = FALSE) the except clause sleeps 5 s and the outer
\* loop starts over.
LoopSpawn(l, ok) ==
    /\ loop[l].pc = "spawn"
    /\ IF ok
       THEN /\ NextRPid <= MaxRecProcs
            /\ rproc' = [rproc EXCEPT ![NextRPid] = "alive"]
            /\ recording_process' = NextRPid
            /\ loop' = [loop EXCEPT ![l].pc = "inner", ![l].own = NextRPid,
                                    ![l].fsize = 0, ![l].rot = FALSE,
                                    ![l].seen = FALSE]
            /\ badRotation' = (badRotation \/ (loop[l].rot /\ RRunning(loop[l].own)))
       ELSE /\ loop' = [loop EXCEPT ![l].pc = "outer", ![l].seen = FALSE]
            /\ UNCHANGED <<rproc, recording_process, badRotation>>
    /\ UNCHANGED <<initVars, dirVars, lifeVars, statVars, sessVars, healthVars, recording, max_file_size_mb, stopped>>

\* "while self.recording and self.streaming" of the monitor loop.
LoopInner(l) ==
    /\ loop[l].pc = "inner"
    /\ loop' = [loop EXCEPT ![l].pc = IF recording /\ streaming THEN "poll" ELSE "cleanup"]
    /\ UNCHANGED <<initVars, dirVars, lifeVars, statVars, sessVars, healthVars, recording, recording_process, rproc,
                   max_file_size_mb, stopped, badRotation>>

RotationDue_strict(size) == size > MAX_FILE_SIZE

\* The size test of one poll: "if file_size >= MAX_FILE_SIZE".
RotationDue(size) == size >= MAX_FILE_SIZE

\* The monitor loop with a loop thread that gives up when the subprocess
\* has ended, instead of breaking out to spawn the next one.
LoopPoll_gives_up(l, size) ==
    /\ loop[l].pc = "poll"
    /\ IF recording_process = 0
       THEN loop' = [loop EXCEPT ![l].pc = "outer"]
       ELSE IF ~RRunning(recording_process)
       THEN loop' = [loop EXCEPT ![l] = [NoLoop EXCEPT !.pc = "done"]]
       ELSE IF RotationDue(size)
       THEN loop' = [loop EXCEPT ![l].pc = "g_check", ![l].ret = "cleanup",
                                 ![l].fsize = size, ![l].rot = TRUE]
       ELSE loop' = [loop EXCEPT ![l].pc = "inner", ![l].fsize = size]
    /\ UNCHANGED <<initVars, dirVars, lifeVars, statVars, sessVars, healthVars, recording, recording_process, rproc,
                   max_file_size_mb, stopped, badRotation>>

\* The body of the monitor loop. "self.recording_process.poll()" raises
\* AttributeError on None (the loop's except clause sleeps 5 s and the outer
\* loop starts over); when the process has ended the loop sleeps 5 s and
\* breaks; else the size of output_path is read (size; 0 when the file does
\* not exist yet) and either the rotation begins or the loop sleeps 10 s.
LoopPoll(l, size) ==
    /\ loop[l].pc = "poll"
    /\ IF recording_process = 0
       THEN loop' = [loop EXCEPT ![l].pc = "outer"]
       ELSE IF ~RRunning(recording_process)
       THEN loop' = [loop EXCEPT ![l].pc = "cleanup"]
       ELSE IF RotationDue(size)
       THEN loop' = [loop EXCEPT ![l].pc = "g_check", ![l].ret = "cleanup",
                                 ![l].fsize = size, ![l].rot = TRUE]
       ELSE loop' = [loop EXCEPT ![l].pc = "inner", ![l].fsize = size]
    /\ UNCHANGED <<initVars, dirVars, lifeVars, statVars, sessVars, healthVars, recording, recording_process, rproc,
                   max_file_size_mb, stopped, badRotation>>

\* The size probe of a poll fails: output_path exists at "os.path.exists"
\* and is gone at "os.path.getsize" (delete_recording removed it). The
\* OSError leaves the monitor loop and the try block; the loop's except
\* clause sleeps 5 s and the outer loop starts over, with the subprocess
\* still running and still referred to.
LoopProbeFails(l) ==
    /\ loop[l].pc = "poll"
    /\ RRunning(recording_process)
    /\ loop' = [loop EXCEPT ![l].pc = "outer"]
    /\ UNCHANGED <<initVars, dirVars, lifeVars, statVars, sessVars, healthVars, recording, recording_process, rproc,
                   max_file_size_mb, stopped, badRotation>>

\* "if self.recording_process and self.recording_process.poll() is None:
\* self._stop_recording_gracefully()" after the monitor loop.
LoopCleanup(l) ==
    /\ loop[l].pc = "cleanup"
    /\ IF RRunning(recording_process)
       THEN loop' = [loop EXCEPT ![l].pc = "g_check", ![l].ret = "outer"]
       ELSE loop' = [loop EXCEPT ![l].pc = "outer"]
    /\ UNCHANGED <<initVars, dirVars, lifeVars, statVars, sessVars, healthVars, recording, recording_process, rproc,
                   max_file_size_mb, stopped, badRotation>>

\* A step of a loop thread inside _stop_recording_gracefully; an exception
\* that leaves it is caught by the loop's except clause.
LoopLadder(l) ==
    /\ loop[l].pc \in LadderPcs
    /\ LET r == LadderStep(loop[l]) IN
           /\ loop' = [loop EXCEPT ![l] =
                          IF r.t.pc = "raised"
                          THEN [r.t EXCEPT !.pc = "outer"]
                          ELSE r.t]
           /\ rproc' = r.rp
    /\ UNCHANGED <<initVars, dirVars, lifeVars, statVars, sessVars, healthVars, recording, recording_process,
                   max_file_size_mb, stopped, badRotation>>

\* ------------------------------------------- start_recording, stop_recording
\* A recording is active: the flag is set, a loop thread runs and it has
\* spawned a subprocess.
ActiveRecording ==
    /\ recording
    /\ recording_process # 0
    /\ \E l \in LoopIds : LoopRunning(l)

FreeLoops == {l \in LoopIds : loop[l].pc = "none"}

\* start_recording() with its test of self.streaming after the start of the
\* thread: whatever it returns, the flag is set and a thread is started.
start_recording_unchecked(isStreaming) ==
    /\ FreeLoops # {}
    /\ recording' = TRUE
    /\ LET l == CHOOSE x \in FreeLoops : \A y \in FreeLoops : x <= y IN
           loop' = [loop EXCEPT ![l] = [NoLoop EXCEPT !.pc = "outer",
                                                      !.ret = "outer"]]
    /\ stopped' = "no"
    /\ started' = IF isStreaming THEN "True" ELSE "False"

\* start_recording(): False when streaming is off; else the flag is set and
\* a _recording_loop thread is started.
start_recording(isStreaming) ==
    IF ~isStreaming
    THEN /\ started' = "False"
         /\ UNCHANGED <<recording, loop, stopped>>
    ELSE /\ FreeLoops # {}
         /\ recording' = TRUE
         /\ LET l == CHOOSE x \in FreeLoops : \A y \in FreeLoops : x <= y IN
                loop' = [loop EXCEPT ![l] = [NoLoop EXCEPT !.pc = "outer",
                                                           !.ret = "outer"]]
         /\ stopped' = "no"
         /\ started' = "True"

\* A call of start_recording() by the caller thread.
StartRecording ==
    /\ caller.pc = "idle"
    /\ start_recording(streaming)
    /\ UNCHANGED <<initVars, dirVars, lifeVars, statVars, healthVars,
                   recording_process, rproc, max_file_size_mb, badRotation>>
    /\ UNCHANGED <<stderrThreads, temp_dir, old_dirs, lastWarn, prevWarn,
                   restart>>

\* stop_recording() up to its call of _stop_recording_gracefully:
\* "self.recording = False".
StopRecordingBegin ==
    /\ caller.pc = "idle"
    /\ recording' = FALSE
    /\ caller' = [caller EXCEPT !.pc = "g_check", !.ret = "sr_none"]
    /\ stopped' = IF ActiveRecording THEN "active" ELSE stopped
    /\ UNCHANGED <<initVars, dirVars, lifeVars, statVars, sessVars, frameVars, streaming, ffmpeg_process, recording_process,
                   rproc, loop, max_file_size_mb, badRotation>>

\* A step of the caller inside _stop_recording_gracefully; an exception
\* that leaves it ends the call.
CallerLadder ==
    /\ caller.pc \in LadderPcs
    /\ LET r == LadderStep(caller) IN
           /\ caller' = IF r.t.pc = "raised"
                        THEN [r.t EXCEPT !.pc = "idle", !.ret = "idle"]
                        ELSE r.t
           /\ rproc' = r.rp
    /\ UNCHANGED <<initVars, dirVars, lifeVars, statVars, sessVars, frameVars, streaming, ffmpeg_process, recording,
                   recording_process, loop, max_file_size_mb, stopped,
                   badRotation>>

\* stop_recording() after the call: "self.recording_process = None".
StopRecordingEnd ==
    /\ caller.pc = "sr_none"
    /\ recording_process' = 0
    /\ caller' = [caller EXCEPT !.pc = "idle", !.ret = "idle"]
    /\ stopped' = IF stopped = "active" THEN "returned" ELSE stopped
    /\ UNCHANGED <<initVars, dirVars, lifeVars, statVars, sessVars, frameVars, streaming, ffmpeg_process, recording, rproc,
                   loop, max_file_size_mb, badRotation>>

\* stop_streaming() after the frame-extraction subprocess is stopped: the
\* scratch directory is removed and "if self.recording:
\* self.stop_recording()".
StopStreamingEnd ==
    /\ caller.pc = "ss_clean"
    /\ IF recording
       THEN /\ recording' = FALSE
            /\ caller' = [caller EXCEPT !.pc = "g_check", !.ret = "sr_none"]
            /\ stopped' = IF ActiveRecording THEN "active" ELSE stopped
       ELSE /\ caller' = [caller EXCEPT !.pc = "idle"]
            /\ UNCHANGED <<recording, stopped>>
    /\ RemoveTempDir
    /\ UNCHANGED <<initVars, lifeVars, statVars, frameVars, streaming,
                   ffmpeg_process, recording_process, rproc, loop,
                   max_file_size_mb, badRotation>>
    /\ UNCHANGED <<written, readers, heldNo, regressed, stderrThreads,
                   old_dirs, lastWarn, prevWarn, restart, started>>

\* ------------------------------------------------------ initialize_streaming
Callers == 1..NumCallers

\* "if _initialized or streamer is not None"
already_flag_only == initialized

already_initialized == initialized \/ streamer

\* A thread calls initialize_streaming() and arrives at the lock.
InitCall(c) ==
    /\ ic[c].pc = "idle"
    /\ ic[c].calls < MaxCalls
    /\ ic' = [ic EXCEPT ![c].pc = "wait", ![c].calls = @ + 1]
    /\ UNCHANGED <<dirVars, lifeVars, statVars, sessVars, healthVars, recording, recVars, initialized, streamer,
                   lock, constructed, startCalls, skipped>>

\* "with _initialization_lock": the caller enters when no thread holds it.
InitAcquire(c) ==
    /\ ic[c].pc = "wait"
    /\ lock = 0
    /\ lock' = c
    /\ ic' = [ic EXCEPT ![c].pc = "check"]
    /\ UNCHANGED <<dirVars, lifeVars, statVars, sessVars, healthVars, recording, recVars, initialized, streamer,
                   constructed, startCalls, skipped>>

\* The test at the head of the body: return (which releases the lock), or
\* "_initialized = True".
InitCheck(c) ==
    /\ ic[c].pc = "check"
    /\ IF already_initialized
       THEN /\ lock' = 0
            /\ ic' = [ic EXCEPT ![c].pc = "idle"]
            /\ skipped' = skipped + 1
            /\ UNCHANGED initialized
       ELSE /\ initialized' = TRUE
            /\ ic' = [ic EXCEPT ![c].pc = "construct"]
            /\ UNCHANGED <<lock, skipped>>
    /\ UNCHANGED <<dirVars, lifeVars, statVars, sessVars, healthVars, recording, recVars, streamer, constructed,
                   startCalls>>

\* "streamer = RTSPStreamer(rtsp_url)"
InitConstruct(c) ==
    /\ ic[c].pc = "construct"
    /\ streamer' = TRUE
    /\ constructed' = constructed + 1
    /\ ic' = [ic EXCEPT ![c].pc = "start"]
    /\ UNCHANGED <<dirVars, lifeVars, statVars, sessVars, healthVars, recording, recVars, initialized, lock,
                   startCalls, skipped>>

\* "if streamer.start_streaming()", up to its call of connect():
\* "self.streaming = True".
InitStart(c) ==
    /\ ic[c].pc = "start"
    /\ startCalls' = startCalls + 1
    /\ streaming' = TRUE
    /\ ic' = [ic EXCEPT ![c].pc = "connect"]
    /\ UNCHANGED <<dirVars, lifeVars, statVars, sessVars, frameVars, ffmpeg_process, caller, recording, recVars,
                   initialized, streamer, lock, constructed, skipped>>

\* connect() and the rest of start_streaming(): either no ffmpeg binary is
\* found (installed = FALSE: connect returns False, streaming is reset and
\* start_streaming returns False), or start_ffmpeg_process is called, which
\* returns normally whether or not Popen raised, and both return True.
InitConnect(c, installed, ok) ==
    /\ ic[c].pc = "connect"
    /\ IF installed
       THEN /\ StartFfmpegProcess(ok, mon)
            /\ ic' = [ic EXCEPT ![c].pc = "record"]
            /\ UNCHANGED streaming
       ELSE /\ streaming' = FALSE
            /\ ic' = [ic EXCEPT ![c].pc = "failed"]
            /\ UNCHANGED <<ffmpeg_process, orphans, mon, readThreads, dirVars,
                           stderrThreads, temp_dir, old_dirs>>
    /\ UNCHANGED <<now, frame_buffer, last_frame_time, last_frame_warning_time,
                   ffmpeg_restart_count, caller, got, lastPublish,
                   episodeRestarts, attempts, recording, recVars, initialized,
                   streamer, lock, constructed, startCalls, skipped,
                   lifeVars, statVars, lastWarn, prevWarn, restart, started>>

\* The emit_frames_loop task is started and "if streamer.start_recording()";
\* the body ends and the lock is released.
InitRecord(c) ==
    /\ ic[c].pc = "record"
    /\ start_recording(streaming)
    /\ lock' = 0
    /\ ic' = [ic EXCEPT ![c].pc = "idle"]
    /\ UNCHANGED <<dirVars, lifeVars, statVars, healthVars, recording_process, rproc,
                   max_file_size_mb, badRotation, initialized, streamer,
                   constructed, startCalls,
                   skipped>>
    /\ UNCHANGED <<stderrThreads, temp_dir, old_dirs, lastWarn, prevWarn,
                   restart>>

\* "_initialized = False  # Reset on failure"; the lock is released.
InitFailed(c) ==
    /\ ic[c].pc = "failed"
    /\ initialized' = FALSE
    /\ lock' = 0
    /\ ic' = [ic EXCEPT ![c].pc = "idle"]
    /\ UNCHANGED <<dirVars, lifeVars, statVars, sessVars, healthVars, recording, recVars, streamer, constructed,
                   startCalls, skipped>>

\* ----------------------------------------------------------- cleanup_on_exit
\* The threads that call cleanup_on_exit(): the atexit hook, the signal
\* handler. Each calls it once.
Stoppers == 1..NumStoppers

\* What no step of cleanup_on_exit() or status() changes.
lifeRest == <<now, frame_buffer, last_frame_time, last_frame_warning_time,
              ffmpeg_restart_count, mon, readThreads, caller, got,
              lastPublish, episodeRestarts, attempts, loop,
              max_file_size_mb, badRotation, initVars, written, readers,
              heldNo, regressed, status, statVars, stderrThreads, old_dirs,
              lastWarn, prevWarn, restart, started>>

ActiveStoppers == {s \in Stoppers : handler[s].pc \notin {"idle", "done"}}

\* An exception leaves stop_streaming(), and cleanup_on_exit() with it.
StopRaises(s) ==
    /\ handler' = [handler EXCEPT ![s] = [pc |-> "done", ret |-> "idle", tgt |-> 0]]
    /\ raised' = raised \cup {"stop_streaming"}
    /\ UNCHANGED stops

\* stop_streaming() returns.
StopReturns(s) ==
    /\ handler' = [handler EXCEPT ![s] = [pc |-> "done", ret |-> "idle", tgt |-> 0]]
    /\ stops' = stops + 1
    /\ UNCHANGED raised

\* cleanup_on_exit(): "if streamer: streamer.stop_streaming()", up to
\* "self.streaming = False".
CleanupOnExit(s) ==
    /\ handler[s].pc = "idle"
    /\ IF streamer
       THEN /\ streaming' = FALSE
            /\ handler' = [handler EXCEPT ![s].pc = "ss_if"]
       ELSE /\ handler' = [handler EXCEPT ![s].pc = "done"]
            /\ UNCHANGED streaming
    /\ UNCHANGED <<lifeRest, ffmpeg_process, orphans, files, small, temp_dir, recording,
                   recording_process, rproc, stopped, stops, raised>>

\* "if self.ffmpeg_process:"
StopIfProcess(s) ==
    /\ handler[s].pc = "ss_if"
    /\ handler' = [handler EXCEPT ![s].pc = IF ffmpeg_process # "None"
                                           THEN "ss_term" ELSE "ss_rm"]
    /\ UNCHANGED <<lifeRest, streaming, ffmpeg_process, orphans, files, small, temp_dir,
                   recording, recording_process, rproc, stopped, stops,
                   raised>>

\* "self.ffmpeg_process.terminate()": the attribute is read again, and
\* None has no terminate.
StopTerminate(s) ==
    /\ handler[s].pc = "ss_term"
    /\ IF ffmpeg_process = "None"
       THEN /\ StopRaises(s)
            /\ UNCHANGED ffmpeg_process
       ELSE /\ ffmpeg_process' = Terminate(ffmpeg_process)
            /\ handler' = [handler EXCEPT ![s].pc = "ss_wait"]
            /\ UNCHANGED <<stops, raised>>
    /\ UNCHANGED <<lifeRest, streaming, orphans, files, small, temp_dir, recording,
                   recording_process, rproc, stopped>>

\* "self.ffmpeg_process.wait(timeout=5)": the attribute is read again; the
\* wait returns once the subprocess has exited, or times out while it runs
\* (timedOut).
StopWait(s, timedOut) ==
    /\ handler[s].pc = "ss_wait"
    /\ IF ffmpeg_process = "None"
       THEN StopRaises(s)
       ELSE /\ timedOut = Running(ffmpeg_process)
            /\ handler' = [handler EXCEPT ![s].pc = IF timedOut THEN "ss_kill"
                                                               ELSE "ss_none"]
            /\ UNCHANGED <<stops, raised>>
    /\ UNCHANGED <<lifeRest, streaming, ffmpeg_process, orphans, files, small, temp_dir,
                   recording, recording_process, rproc, stopped>>

\* "except subprocess.TimeoutExpired: self.ffmpeg_process.kill()"
StopKill(s) ==
    /\ handler[s].pc = "ss_kill"
    /\ IF ffmpeg_process = "None"
       THEN /\ StopRaises(s)
            /\ UNCHANGED ffmpeg_process
       ELSE /\ ffmpeg_process' = Kill(ffmpeg_process)
            /\ handler' = [handler EXCEPT ![s].pc = "ss_none"]
            /\ UNCHANGED <<stops, raised>>
    /\ UNCHANGED <<lifeRest, streaming, orphans, files, small, temp_dir, recording,
                   recording_process, rproc, stopped>>

\* "self.ffmpeg_process = None": a subprocess still running behind the
\* handle is no longer referred to.
StopDropHandle(s) ==
    /\ handler[s].pc = "ss_none"
    /\ ffmpeg_process' = "None"
    /\ orphans' = orphans + (IF Running(ffmpeg_process) THEN 1 ELSE 0)
    /\ handler' = [handler EXCEPT ![s].pc = "ss_rm"]
    /\ UNCHANGED <<lifeRest, streaming, files, small, temp_dir, recording,
                   recording_process, rproc, stopped, stops, raised>>

\* shutil.rmtree(self.temp_dir), whose exceptions are caught, and
\* "if self.recording: self.stop_recording()" up to "self.recording = False".
StopCleanDir(s) ==
    /\ handler[s].pc = "ss_rm"
    /\ RemoveTempDir
    /\ IF recording
       THEN /\ recording' = FALSE
            /\ handler' = [handler EXCEPT ![s].pc = "g_check", ![s].ret = "sr_none"]
            /\ stopped' = IF ActiveRecording THEN "active" ELSE stopped
            /\ UNCHANGED <<stops, raised>>
       ELSE /\ StopReturns(s)
            /\ UNCHANGED <<recording, stopped>>
    /\ UNCHANGED <<lifeRest, streaming, ffmpeg_process, orphans,
                   recording_process, rproc>>

\* A step of the thread inside _stop_recording_gracefully.
StopLadder(s) ==
    /\ handler[s].pc \in LadderPcs
    /\ LET r == LadderStep(handler[s]) IN
           /\ rproc' = r.rp
           /\ IF r.t.pc = "raised"
              THEN StopRaises(s)
              ELSE /\ handler' = [handler EXCEPT ![s] = r.t]
                   /\ UNCHANGED <<stops, raised>>
    /\ UNCHANGED <<lifeRest, streaming, ffmpeg_process, orphans, files, small, temp_dir,
                   recording, recording_process, stopped>>

\* stop_recording() after the call: "self.recording_process = None"; it and
\* stop_streaming() return.
StopRecordingDone(s) ==
    /\ handler[s].pc = "sr_none"
    /\ recording_process' = 0
    /\ stopped' = IF stopped = "active" THEN "returned" ELSE stopped
    /\ StopReturns(s)
    /\ UNCHANGED <<lifeRest, streaming, ffmpeg_process, orphans, files, small, temp_dir,
                   recording, rproc>>

\* -------------------------------------------------------------------- status
\* What no step of status() changes.
statusRest == <<healthVars, recording, recVars, initVars, dirVars, handler,
                stops, statVars, sessVars>>

\* status(): "if streamer:" and the read of streamer.streaming; without a
\* streamer the three values are False.
StatusBegin ==
    /\ status.pc = "idle"
    /\ status' = IF streamer
                 THEN [status EXCEPT !.pc = "recording", !.streaming = streaming]
                 ELSE [pc |-> "done", streaming |-> FALSE, recording |-> FALSE,
                       connected |-> FALSE]
    /\ UNCHANGED <<statusRest, raised>>

\* The read of streamer.recording.
StatusRecording ==
    /\ status.pc = "recording"
    /\ status' = [status EXCEPT !.pc = "handle", !.recording = recording]
    /\ UNCHANGED <<statusRest, raised>>

\* "streamer.ffmpeg_process is not None and": on None the value is False
\* and the response is built.
StatusHandle ==
    /\ status.pc = "handle"
    /\ status' = IF ffmpeg_process = "None"
                 THEN [status EXCEPT !.pc = "done", !.connected = FALSE]
                 ELSE [status EXCEPT !.pc = "poll"]
    /\ UNCHANGED <<statusRest, raised>>

\* "streamer.ffmpeg_process.poll() is None": the attribute is read again,
\* and None has no poll.
StatusPoll ==
    /\ status.pc = "poll"
    /\ IF ffmpeg_process = "None"
       THEN /\ status' = [status EXCEPT !.pc = "failed"]
            /\ raised' = raised \cup {"status"}
       ELSE /\ status' = [status EXCEPT !.pc = "done",
                                        !.connected = Running(ffmpeg_process)]
            /\ UNCHANGED raised
    /\ UNCHANGED statusRest

\* ---------------------------------------------------------------- statistics
\* What no step that writes the statistics changes.
statRest == <<now, streaming, ffmpeg_process, orphans, last_frame_warning_time,
              ffmpeg_restart_count, mon, readThreads, caller, got, attempts,
              recording, recVars, initVars, dirVars, lifeVars, sessVars>>

\* _read_frames with a frame longer than MIN_FRAME_LEN bytes: "with
\* self.lock:" is entered, frame_buffer and last_frame_time are written.
PublishAcquire ==
    /\ pub.pc = "idle"
    /\ readThreads > 0
    /\ streaming /\ Running(ffmpeg_process)
    /\ frames_received < MaxCount
    /\ self_lock = "none"
    /\ self_lock' = "reader"
    /\ frame_buffer' = MIN_FRAME_LEN + 1
    /\ last_frame_time' = now
    /\ lastPublish' = now
    /\ episodeRestarts' = 0
    /\ pub' = [pub EXCEPT !.pc = "locked"]
    /\ UNCHANGED <<statRest, frames_received, frames_emitted,
                   last_stats_report, emit>>

\* "self.frames_received += 1": the attribute is read,
PublishLoad ==
    /\ pub.pc = "locked"
    /\ pub' = [pc |-> "loaded", tmp |-> frames_received]
    /\ UNCHANGED <<statRest, frame_buffer, last_frame_time, lastPublish,
                   episodeRestarts, frames_received, frames_emitted,
                   last_stats_report, self_lock, emit>>

\* then the sum is stored, and the with block is left.
PublishStore ==
    /\ pub.pc = "loaded"
    /\ frames_received' = pub.tmp + 1
    /\ self_lock' = "none"
    /\ pub' = [pc |-> "idle", tmp |-> 0]
    /\ UNCHANGED <<statRest, frame_buffer, last_frame_time, lastPublish,
                   episodeRestarts, frames_emitted, last_stats_report, emit>>

\* _emit_frame(): get_frame(), which takes self.lock for its test of the
\* buffer, and socketio.emit when it returned a frame.
EmitFrame ==
    /\ emit.pc = "idle"
    /\ streaming
    /\ frames_emitted < MaxCount
    /\ self_lock = "none"
    /\ get_frame = "bytes"
    /\ emit' = [emit EXCEPT !.pc = "emitted"]
    /\ UNCHANGED <<statRest, frame_buffer, last_frame_time, lastPublish,
                   episodeRestarts, frames_received, frames_emitted,
                   last_stats_report, self_lock, pub>>

\* "self.frames_emitted += 1": the attribute is read,
EmitLoad ==
    /\ emit.pc = "emitted"
    /\ emit' = [pc |-> "loaded", tmp |-> frames_emitted]
    /\ UNCHANGED <<statRest, frame_buffer, last_frame_time, lastPublish,
                   episodeRestarts, frames_received, frames_emitted,
                   last_stats_report, self_lock, pub>>

\* then the sum is stored.
EmitStore ==
    /\ emit.pc = "loaded"
    /\ frames_emitted' = emit.tmp + 1
    /\ emit' = [pc |-> "idle", tmp |-> 0]
    /\ UNCHANGED <<statRest, frame_buffer, last_frame_time, lastPublish,
                   episodeRestarts, frames_received, last_stats_report,
                   self_lock, pub>>

\* The end of a pass of a monitor thread: "if current_time -
\* self.last_stats_report > STATS_INTERVAL", the report is printed, then
\* "self.frames_received = 0; self.frames_emitted = 0;
\* self.last_stats_report = current_time".
MonReport ==
    /\ mon["tick"] > 0
    /\ streaming
    /\ now - last_stats_report > STATS_INTERVAL
    /\ frames_received' = 0
    /\ frames_emitted' = 0
    /\ last_stats_report' = now
    /\ UNCHANGED <<statRest, frame_buffer, last_frame_time, lastPublish,
                   episodeRestarts, self_lock, pub, emit>>

\* ------------------------------------------------------------ specification
\* No cleanup_on_exit call and no /status request yet; the statistics as
\* RTSPStreamer.__init__ sets them.
Quiet ==
    /\ handler = [s \in Stoppers |-> [pc |-> "idle", ret |-> "idle", tgt |-> 0]]
    /\ stops = 0
    /\ status = [pc |-> "idle", streaming |-> FALSE, recording |-> FALSE,
                 connected |-> FALSE]
    /\ raised = {}
    /\ frames_received = 0
    /\ frames_emitted = 0
    /\ last_stats_report = StartTime
    /\ self_lock = "none"
    /\ pub = [pc |-> "idle", tmp |-> 0]
    /\ emit = [pc |-> "idle", tmp |-> 0]
    /\ old_dirs = 0
    /\ lastWarn = 0
    /\ prevWarn = 0
    /\ restart = NoRestart
    /\ started = "none"


\* The state after start_streaming() has returned True inside
\* initialize_streaming(): one subprocess with its reader and monitor
\* threads, no frame yet, no recording yet.
StartedBase ==
    /\ now = StartTime
    /\ streaming = TRUE
    /\ recording = FALSE
    /\ ffmpeg_process = "alive"
    /\ orphans = 0
    /\ last_frame_warning_time = 0
    /\ ffmpeg_restart_count = 0
    /\ mon = [pc \in MonPcs |-> IF pc = "tick" THEN 1 ELSE 0]
    /\ readThreads = 1
    /\ stderrThreads = 1
    /\ temp_dir = "present"
    /\ caller = [pc |-> "idle", ret |-> "idle", tgt |-> 0]
    /\ got = [res |-> "None", stale |-> TRUE, published |-> FALSE, held |-> FALSE]
    /\ episodeRestarts = 0
    /\ attempts = 0
    /\ recording_process = 0
    /\ rproc = [p \in RPids |-> "none"]
    /\ loop = [l \in LoopIds |-> NoLoop]
    /\ stopped = "no"
    /\ badRotation = FALSE
    /\ initialized = TRUE
    /\ streamer = TRUE
    /\ lock = 0
    /\ ic = [c \in Callers |-> [pc |-> "idle", calls |-> 0]]
    /\ constructed = 1
    /\ startCalls = 1
    /\ skipped = 0
    /\ regressed = FALSE
    /\ Quiet

\* No frame has been written yet.
NoFrameYet ==
    /\ frame_buffer = 0
    /\ last_frame_time = 0
    /\ lastPublish = 0
    /\ files = {}
    /\ small = {}
    /\ written = 0
    /\ heldNo = 0
    /\ readers = [r \in ReaderIds |-> IF r = 1 THEN NewReader ELSE NoReader]

\* The subprocess has written LateStart frames and the reader has published
\* each of them in turn: the last KEEP_FRAMES files are in the directory.
LateFrames ==
    /\ frame_buffer = MIN_FRAME_LEN + 1
    /\ last_frame_time = StartTime
    /\ lastPublish = StartTime
    /\ files = (LateStart - KEEP_FRAMES + 1)..LateStart
    /\ small = {}
    /\ written = LateStart
    /\ heldNo = LateStart
    /\ readers = [r \in ReaderIds |->
                     IF r = 1 THEN [NewReader EXCEPT !.last = LateStart]
                     ELSE NoReader]

Started == StartedBase /\ NoFrameYet

\* recording_config.get('max_file_size_mb', 10) with the value of
\* src/config.py.
Init == Started /\ max_file_size_mb = DEFAULT_MAX_FILE_SIZE_MB

\* The same state under any configured rotation threshold.
InitRot == Started /\ max_file_size_mb \in 1..MaxThresholdMb

\* The state after the module is loaded: no RTSPStreamer yet. The fields of
\* the object are those RTSPStreamer.__init__ will give it.
InitStartup ==
    /\ now = StartTime
    /\ streaming = FALSE
    /\ recording = FALSE
    /\ ffmpeg_process = "None"
    /\ orphans = 0
    /\ frame_buffer = 0
    /\ last_frame_time = 0
    /\ last_frame_warning_time = 0
    /\ ffmpeg_restart_count = 0
    /\ mon = [pc \in MonPcs |-> 0]
    /\ readThreads = 0
    /\ stderrThreads = 0
    /\ temp_dir = "None"
    /\ caller = [pc |-> "idle", ret |-> "idle", tgt |-> 0]
    /\ got = [res |-> "None", stale |-> TRUE, published |-> FALSE, held |-> FALSE]
    /\ lastPublish = 0
    /\ episodeRestarts = 0
    /\ attempts = 0
    /\ recording_process = 0
    /\ rproc = [p \in RPids |-> "none"]
    /\ loop = [l \in LoopIds |-> NoLoop]
    /\ max_file_size_mb = DEFAULT_MAX_FILE_SIZE_MB
    /\ stopped = "no"
    /\ badRotation = FALSE
    /\ initialized = FALSE
    /\ streamer = FALSE
    /\ lock = 0
    /\ ic = [c \in Callers |-> [pc |-> "idle", calls |-> 0]]
    /\ constructed = 0
    /\ startCalls = 0
    /\ skipped = 0
    /\ files = {}
    /\ small = {}
    /\ written = 0
    /\ heldNo = 0
    /\ readers = [r \in ReaderIds |-> NoReader]
    /\ regressed = FALSE
    /\ Quiet

\* Concurrent and repeated calls of initialize_streaming().
NextInit ==
    \E c \in Callers :
        \/ InitCall(c)
        \/ InitAcquire(c)
        \/ InitCheck(c)
        \/ InitConstruct(c)
        \/ InitStart(c)
        \/ \E installed, ok \in BOOLEAN : InitConnect(c, installed, ok)
        \/ InitRecord(c)
        \/ InitFailed(c)

SpecInit == InitStartup /\ [][NextInit]_vars

\* Startup, shutdown and a /status request side by side: the callers of
\* initialize_streaming(), the callers of cleanup_on_exit(), one request and
\* the subprocess.
NextLife ==
    \/ NextInit
    \/ \E s \in Stoppers :
        \/ CleanupOnExit(s)
        \/ StopIfProcess(s)
        \/ StopTerminate(s)
        \/ \E timedOut \in BOOLEAN : StopWait(s, timedOut)
        \/ StopKill(s)
        \/ StopDropHandle(s)
        \/ StopCleanDir(s)
        \/ StopLadder(s)
        \/ StopRecordingDone(s)
    \/ StatusBegin
    \/ StatusRecording
    \/ StatusHandle
    \/ StatusPoll
    \/ ProcExit

SpecLife == InitStartup /\ [][NextLife]_vars

Next ==
    \/ Tick
    \/ ProcExit
    \/ OrphanExit
    \/ \E len \in FrameLens \cup {0} : ReadFrames(len)
    \/ MonTick
    \/ MonStallKill
    \/ \E ok \in BOOLEAN : MonStallStart(ok)
    \/ \E ok \in BOOLEAN : MonCrashStart(ok)
    \/ GetFrame
    \/ StopStreamingBegin
    \/ StopStreamingWait
    \/ StopStreamingEnd

\* The recording side: the calls of start_recording (while streaming is
\* on), stop_recording and stop_streaming by one caller, the loop threads and the subprocesses. The
\* size a poll reads is 0 or the rotation threshold.
NextRec ==
    \/ streaming /\ StartRecording
    \/ StopRecordingBegin
    \/ CallerLadder
    \/ StopRecordingEnd
    \/ StopStreamingBegin
    \/ StopStreamingWait
    \/ StopStreamingEnd
    \/ \E p \in RPids : RecExit(p)
    \/ \E l \in LoopIds :
          \/ LoopOuter(l)
          \/ \E ok \in BOOLEAN : LoopSpawn(l, ok)
          \/ LoopInner(l)
          \/ \E size \in {0, MAX_FILE_SIZE} : LoopPoll(l, size)
          \/ LoopProbeFails(l)
          \/ LoopCleanup(l)
          \/ LoopLadder(l)

SpecRec == Init /\ [][NextRec]_vars

\* start_recording() at any moment, before and after the one
\* stop_streaming() call of the caller, with the loop threads and their
\* subprocesses; every poll reads a size below the rotation threshold.
NextStart ==
    \/ StartRecording
    \/ streaming /\ StopStreamingBegin
    \/ StopStreamingWait
    \/ StopStreamingEnd
    \/ CallerLadder
    \/ StopRecordingEnd
    \/ \E p \in RPids : RecExit(p)
    \/ \E l \in LoopIds :
          \/ LoopOuter(l)
          \/ \E ok \in BOOLEAN : LoopSpawn(l, ok)
          \/ LoopInner(l)
          \/ LoopPoll(l, 0)
          \/ LoopCleanup(l)
          \/ LoopLadder(l)

SpecStart == Init /\ [][NextStart]_vars

\* Recording with no stop: the one start_recording call that
\* initialize_streaming makes, the loop thread with its polls and probe
\* failures, and subprocesses that exit.
NextRestart ==
    \/ FreeLoops = LoopIds /\ StartRecording
    \/ \E p \in RPids : RecExit(p)
    \/ \E l \in LoopIds :
          \/ LoopOuter(l)
          \/ \E ok \in BOOLEAN : LoopSpawn(l, ok)
          \/ LoopInner(l)
          \/ \E size \in {0, MAX_FILE_SIZE} : LoopPoll(l, size)
          \/ LoopProbeFails(l)
          \/ LoopCleanup(l)
          \/ LoopLadder(l)

SpecRestart == Init /\ [][NextRestart]_vars

\* The threads of _recording_loop keep running, and Popen does not fail at
\* every attempt.
FairnessRec ==
    \A l \in LoopIds :
        /\ WF_vars(LoopOuter(l))
        /\ SF_vars(LoopSpawn(l, TRUE))
        /\ WF_vars(LoopInner(l))
        /\ WF_vars(\E size \in {0, MAX_FILE_SIZE} : LoopPoll(l, size))
        /\ WF_vars(LoopCleanup(l))
        /\ WF_vars(LoopLadder(l))

FairRestart == SpecRestart /\ FairnessRec

\* The statistics: the clock, a reader and the emitter that count frames,
\* the monitor threads with their restarts and reports.
NextStats ==
    \/ Tick
    \/ ProcExit
    \/ MonTick
    \/ MonStallKill
    \/ \E ok \in BOOLEAN : MonStallStart(ok)
    \/ \E ok \in BOOLEAN : MonCrashStart(ok)
    \/ PublishAcquire
    \/ PublishLoad
    \/ PublishStore
    \/ EmitFrame
    \/ EmitLoad
    \/ EmitStore
    \/ MonReport

SpecStats == Init /\ [][NextStats]_vars

\* The scratch directory: the state of Init, or that state late in the life
\* of the first subprocess.
InitFrames ==
    /\ StartedBase
    /\ max_file_size_mb = DEFAULT_MAX_FILE_SIZE_MB
    /\ NoFrameYet \/ LateFrames

\* The subprocess writes frames of any size at any rate and may exit; a
\* single reader thread polls the directory.
NextFrames ==
    \/ \E isSmall \in BOOLEAN : WriteFrame(isSmall)
    \/ \E r \in ReaderIds : ReaderGlob(r)
    \/ \E r \in ReaderIds : ReaderRead(r)
    \/ ProcExit

\* Frames longer than MIN_FRAME_LEN bytes, with a subprocess that exits
\* once and is restarted by the monitor.
NextReaders ==
    \/ WriteFrame(FALSE)
    \/ \E r \in ReaderIds : ReaderGlob(r)
    \/ \E r \in ReaderIds : ReaderRead(r)
    \/ ffmpeg_restart_count = 0 /\ ProcExit
    \/ MonTick
    \/ \E ok \in BOOLEAN : MonCrashStart(ok)

SpecReaders == Init /\ [][NextReaders]_vars

SpecFrames == InitFrames /\ [][NextFrames]_vars

\* The output file holds 1 MB more at every poll of the monitor loop.
GrowthPerPoll == 1024 * 1024

\* The rotation scenario: one start_recording() call, no stop call, a
\* subprocess that stays alive until it is told to stop, and a file that
\* grows by GrowthPerPoll between two polls.
NextRot ==
    \/ FreeLoops = LoopIds /\ StartRecording
    \/ \E p \in RPids : rproc[p] = "stopping" /\ RecExit(p)
    \/ \E l \in LoopIds :
          \/ LoopOuter(l)
          \/ \E ok \in BOOLEAN : LoopSpawn(l, ok)
          \/ LoopInner(l)
          \/ LoopPoll(l, loop[l].fsize + GrowthPerPoll)
          \/ LoopCleanup(l)
          \/ LoopLadder(l)

SpecRot == InitRot /\ [][NextRot]_vars

Spec == Init /\ [][Next]_vars

\* The monitor threads with the reader and the subprocess, no stop: each
\* thread makes its warning check either in one step or statement by
\* statement. A print takes less than a step of the clock, so that
\* current_time is the time of the whole pass.
NextMon ==
    \/ mon["warn"] + mon["warn_stall"] = 0 /\ Tick
    \/ ProcExit
    \/ \E len \in FrameLens \cup {0} : ReadFrames(len)
    \/ MonTick
    \/ MonWarnCheck
    \/ \E from \in {"warn", "warn_stall"} : MonWarnPrint(from)
    \/ MonStallKill
    \/ \E ok \in BOOLEAN : MonStallStart(ok)
    \/ \E ok \in BOOLEAN : MonCrashStart(ok)

SpecMon == Init /\ [][NextMon]_vars

\* The end of a session: one stop_streaming() call at any moment of a run
\* in which the subprocess may exit and the monitor threads restart it. The
\* run is short, less than a step of the clock, and its frames are longer
\* than MIN_FRAME_LEN bytes.
NextStop ==
    \/ ProcExit
    \/ OrphanExit
    \/ \E len \in {0, MIN_FRAME_LEN + 1} : ReadFrames(len)
    \/ MonTick
    \/ \E ok \in BOOLEAN : MonCrashStart(ok)
    \/ MonitorStderr
    \/ streaming /\ StopStreamingBegin
    \/ StopStreamingWait
    \/ StopStreamingEnd

SpecStop == Init /\ [][NextStop]_vars

\* The threads of the streamer and the caller of stop_streaming run; the
\* subprocesses are under no obligation.
FairnessStop ==
    /\ WF_vars(ReadFrames(0))
    /\ WF_vars(MonTick)
    /\ WF_vars(\E ok \in BOOLEAN : MonCrashStart(ok))
    /\ WF_vars(MonitorStderr)
    /\ WF_vars(StopStreamingWait)
    /\ WF_vars(StopStreamingEnd)

FairStop == SpecStop /\ FairnessStop

\* The threads run and the clock advances; the subprocesses, the frames they
\* write and the callers of the interface are under no obligation.
Fairness ==
    /\ WF_vars(Tick)
    /\ WF_vars(MonTick)
    /\ WF_vars(MonStallKill)
    /\ WF_vars(\E ok \in BOOLEAN : MonStallStart(ok))
    /\ WF_vars(\E ok \in BOOLEAN : MonCrashStart(ok))

FairSpec == Spec /\ Fairness

\* ------------------------------------------------------------------ claims
\* Monitor threads inside a restart path.
Restarting == mon["stall_kill"] + mon["stall_start"] + mon["crash_start"]

\* The time of the last published frame, or of the start of the stream.
LastActivity == IF lastPublish > 0 THEN lastPublish ELSE StartTime

\* The referenced subprocess has exited on its own while streaming is on.
CrashPending == streaming /\ ffmpeg_process = "exited"

\* The referenced subprocess runs but no frame has been published for more
\* than FRAME_TIMEOUT_RESTART seconds while streaming is on.
Stalled ==
    /\ streaming
    /\ Running(ffmpeg_process)
    /\ now - LastActivity > FRAME_TIMEOUT_RESTART

\* C2: whenever the frame-extraction subprocess has exited on its own while
\* streaming is on, a monitor thread eventually takes the crash restart path
\* (unless streaming is turned off, the handle is replaced, or the run has
\* used up the restarts the model follows).
C2_CrashRestarted ==
    CrashPending ~> (\/ mon["crash_start"] > 0
                     \/ ~CrashPending
                     \/ RestartsBegun >= MaxRestarts)

\* C3: whenever the subprocess is stalled, a monitor thread eventually begins
\* a restart (unless the stall ends: a frame is published, the subprocess
\* exits, streaming is turned off; or the run has used up its restarts).
C3_StallRestarted ==
    \A n \in 0..MaxRestarts :
        (Stalled /\ RestartsBegun = n) ~>
            (\/ RestartsBegun > n
             \/ ~Stalled
             \/ RestartsBegun >= MaxRestarts)

\* C4: within one stall episode (no frame published) the stall path calls
\* start_ffmpeg_process at most once.
C4_OneRestartPerEpisode == episodeRestarts <= 1

\* C5: an exit or kill of the subprocess begins one restart attempt, at most
\* one monitor thread is inside a restart path and at most one
\* frame-extraction subprocess is running.
C5_SingleRestart ==
    /\ attempts <= 1
    /\ Restarting <= 1
    /\ AliveProcs <= 1

\* C10: a get_frame() call made FRESH_WINDOW seconds or more after the last
\* write of last_frame_time returns None, and one that returns bytes was
\* made less than FRESH_WINDOW seconds after a frame was published.
C10_FreshnessGate ==
    /\ got.stale => got.res = "None"
    /\ got.res = "bytes" => got.published

\* C10 witness: get_frame() returned None while the buffer held a frame
\* published FRESH_WINDOW seconds ago or more.
C10_Witness == got.res = "None" /\ got.stale /\ got.held


LoopsStarted == {l \in LoopIds : loop[l].pc # "none"}

\* C6: in every reachable state at most one recording subprocess spawned by
\* the streamer is alive, over any sequence of start_recording, rotation,
\* subprocess exit, stop_recording and stop_streaming.
C6_OneRecorder == Cardinality(RunningRecorders) <= 1

\* C7: when stop_recording() was called during an active recording, then
\* once it has returned and the recording loop has exited, no recording
\* subprocess is alive. Stated for the runs with a single start_recording
\* call, which the property covers.
C7_StopLeavesNoRecorder ==
    (/\ stopped = "returned"
     /\ caller.pc = "idle"
     /\ Cardinality(LoopsStarted) = 1
     /\ \A l \in LoopIds : ~LoopRunning(l))
    => RunningRecorders = {}

\* C8: on size-triggered rotation the subprocess writing the superseded file
\* has exited before the subprocess for the next file is spawned.
C8_RotationAfterExit == ~badRotation

\* Threads and subprocesses of the frame-extraction side.
MonitorThreads == mon["tick"] + mon["warn"] + mon["warn_stall"] + Restarting

\* C1: over any number of concurrent or repeated initialize_streaming()
\* calls, at most one RTSPStreamer is constructed and start_streaming() runs
\* at most once; the calls that find the system started spawn nothing, so
\* that at most one frame-extraction subprocess, reader thread, monitor
\* thread and recording loop exist.
C1_SingleInitialization ==
    /\ constructed <= 1
    /\ startCalls <= 1
    /\ AliveProcs <= 1
    /\ readThreads <= 1
    /\ MonitorThreads <= 1
    /\ Cardinality(LoopsStarted) <= 1

\* A call returned at the test after another call had started the stream.
C1_Witness ==
    /\ skipped >= 1
    /\ constructed = 1
    /\ streaming
    /\ ffmpeg_process = "alive"
    /\ recording

\* C9: with a file that grows by 1 MB per poll, the rotation begins at the
\* first poll whose sampled size is >= max_file_size_mb * 1024 * 1024 (poll
\* max_file_size_mb) and at no earlier poll: a loop in its rotation sampled
\* exactly the threshold, and a loop that went on monitoring sampled less.
C9_RotationAtThreshold ==
    \A l \in LoopIds :
        /\ loop[l].rot => loop[l].fsize = max_file_size_mb * GrowthPerPoll
        /\ loop[l].pc \in {"inner", "poll"} => loop[l].fsize < MAX_FILE_SIZE

\* The rotation of the 10 MB threshold, at poll 10.
C9_Witness ==
    \E l \in LoopIds :
        /\ max_file_size_mb = DEFAULT_MAX_FILE_SIZE_MB
        /\ loop[l].rot
        /\ loop[l].pc = "g_check"
        /\ loop[l].fsize = 10 * GrowthPerPoll

\* C12: while streaming is true, last_frame_time never decreases: every
\* write to it, from any thread, stores a value >= the value it replaces.
C12_FrameTimeMonotone ==
    [][streaming => last_frame_time' >= last_frame_time]_vars

\* C15: start_streaming() returns True only if a frame-extraction
\* subprocess was spawned: a caller that goes on after a True result (to
\* start_recording) finds a subprocess handle.
C15_TrueMeansSpawned ==
    \A c \in Callers : ic[c].pc = "record" => ffmpeg_process # "None"

\* C16: when a start attempt has failed, the streaming flag, _initialized
\* and the global streamer are as before the attempt, so that a later
\* initialize_streaming() call is not skipped.
C16_FailedStartRestoresState ==
    (/\ \A c \in Callers : ic[c].pc \in {"idle", "wait"}
     /\ startCalls >= 1
     /\ ~streaming)
    => (~initialized /\ ~streamer /\ ~already_initialized)

\* C11: the frame in frame_buffer is always the highest-numbered frame
\* published so far: no published frame replaces a newer one.
C11_NewestFrameHeld == ~regressed

\* C13: in every reachable state the scratch directory holds at most
\* KEEP_FRAMES frame files, whatever the subprocess writes and at whatever
\* rate.
C13_BoundedScratch == Cardinality(files) <= KEEP_FRAMES

\* The KEEP_FRAMES highest-numbered of the frames S.
Newest(S) == {n \in S : Cardinality({m \in S : m > n}) < KEEP_FRAMES}

\* C14: when the directory holds more than KEEP_FRAMES files and a reader
\* publishes the newest of them, exactly the KEEP_FRAMES highest-numbered
\* files remain.
C14_KeepsNewestFive ==
    [][\A r \in ReaderIds :
          (/\ readers[r].pc = "read"
           /\ readers[r].snap = files
           /\ Cardinality(files) > KEEP_FRAMES
           /\ readers'[r].pc = "glob"
           /\ readers'[r].last # readers[r].last
           /\ \A n \in files : n <= readers'[r].last)
          => files' = Newest(files)]_vars

\* frame_0001..frame_0006 were in the directory when frame 6 was published:
\* frame_0002..frame_0006 remain.
C14_Witness ==
    /\ files = 2..6
    /\ heldNo = 6
    /\ \E r \in ReaderIds : readers[r].pc = "glob" /\ readers[r].last = 6

\* C17: once stop_streaming(), called by cleanup_on_exit(), has returned
\* and streaming is off, a call of initialize_streaming() that reaches the
\* "already initialized" test is not skipped there.
C17_StopReleasesFlag ==
    [][\A c \in Callers :
          (/\ ic[c].pc = "check"
           /\ stops >= 1
           /\ ActiveStoppers = {}
           /\ ~streaming)
          => ic'[c].pc # "idle"]_vars

\* C18: no call of stop_streaming() ends with an exception, whether it
\* follows a completed call or overlaps another one.
C18_StopIsReentrant == "stop_streaming" \notin raised

\* C19: once start_streaming() and a stop_streaming() that ran during it
\* have both completed, no frame-extraction subprocess is alive while
\* streaming is false.
C19_StopDuringStartup ==
    (/\ \A c \in Callers : ic[c].pc \in {"idle", "wait"}
     /\ ActiveStoppers = {}
     /\ ~streaming)
    => AliveProcs = 0

\* C20: status() returns a result in every state, also while
\* stop_streaming() is clearing ffmpeg_process.
C20_StatusNeverRaises == "status" \notin raised

\* C21: at any time at most one _read_frames poll loop and at most one
\* _recording_loop are running.
C21_OneLoopOfEachKind ==
    /\ Cardinality(RunningReaders) <= 1
    /\ Cardinality({l \in LoopIds : LoopRunning(l)}) <= 1

\* A step of a thread from t to u keeps the order of the tiers of
\* _stop_recording_gracefully: SIGTERM goes to the subprocess whose 10 s wait
\* timed out, SIGKILL ends the subprocess whose 5 s wait timed out, no wait
\* that timed out is followed by the fallback, and the thread leaves the
\* function only when the subprocess it waited for has exited.
TierOrder(t, u) ==
    /\ (t.pc = "g_w10" /\ u.pc = "g_w5") => u.tgt = t.tgt
    /\ (t.pc = "g_w5" /\ u.pc = "g_kw") => rproc'[t.tgt] = "exited"
    /\ (t.pc \in {"g_w10", "g_w5"}) => u.pc # "g_fb"
    /\ (t.pc \in LadderPcs /\ u.pc \notin LadderPcs /\ t.tgt # 0)
       => rproc'[t.tgt] = "exited"

\* C22: every thread in _stop_recording_gracefully applies the tiers in
\* order (quit and a 10 s wait, on timeout SIGTERM and a 5 s wait, on timeout
\* SIGKILL) to one subprocess, and returns when that subprocess has exited.
C22_LadderInOrder ==
    [][/\ TierOrder(caller, caller')
       /\ \A l \in LoopIds : TierOrder(loop[l], loop'[l])]_vars

\* C23: stop_streaming stops the frame-extraction subprocess with the
\* ladder of the recording shutdown: SIGTERM is sent only after a quit
\* request and its wait, never to a subprocess that runs untouched.
C23_SameLadderForFrames ==
    [][\A s \in Stoppers :
          (handler[s].pc = "ss_term" /\ handler'[s].pc = "ss_wait")
          => ffmpeg_process # "alive"]_vars

\* C24: when stop_streaming terminates the frame-extraction subprocess the
\* recording session has been stopped: no recording subprocess is running.
C24_RecordingStoppedFirst ==
    [][(caller.pc = "idle" /\ caller'.pc = "ss_wait")
       => RunningRecorders = {}]_vars

\* The highest frame number of the files S.
Highest(S) == CHOOSE n \in S : \A m \in S : m <= n

\* C25: the file a poll takes as the newest is the one with the numerically
\* highest frame number, also when numbers of four and five digits are in
\* the directory together.
C25_NewestIsHighestNumber ==
    files # {} => LatestFrame(files) = Highest(files)

C28_ProbeFailureSkipped ==
    [][\A l \in LoopIds :
          (loop[l].pc = "poll" /\ RRunning(recording_process))
          => loop'[l].pc \in {"poll", "inner", "g_check"}]_vars

C29_ReportResetsCounters ==
    [][last_stats_report' # last_stats_report
       => /\ frames_received' = 0
          /\ frames_emitted' = 0
          /\ ffmpeg_restart_count' = 0
          /\ last_stats_report' = now]_vars

\* C30: every write to frame_buffer, last_frame_time, frames_received,
\* frames_emitted, ffmpeg_restart_count or streaming is a step of the thread
\* that holds self.lock.
C30_WritesUnderLock ==
    [][(\/ frame_buffer' # frame_buffer
        \/ last_frame_time' # last_frame_time
        \/ frames_received' # frames_received
        \/ frames_emitted' # frames_emitted
        \/ ffmpeg_restart_count' # ffmpeg_restart_count
        \/ streaming' # streaming)
       => (pub' # pub /\ (self_lock = "reader" \/ self_lock' = "reader"))]_vars

\* C31: while no frame has arrived for more than FRAME_TIMEOUT seconds, at
\* most one stall warning is printed in any window of WARN_INTERVAL
\* seconds, restarts of the subprocess included: two warnings in a row are
\* at least WARN_INTERVAL seconds apart.
C31_OneWarningPerWindow ==
    prevWarn > 0 => lastWarn - prevWarn >= WARN_INTERVAL

\* C32: every forced restart of a stalled subprocess is preceded by a stall
\* warning of the same stall episode: in the pass that terminates the
\* subprocess, the last warning was printed no earlier than the last
\* published frame and no later than that pass.
C32_WarnedBeforeRestart ==
    [][mon'["stall_kill"] > mon["stall_kill"]
          => /\ lastPublish > 0
             /\ lastWarn' >= lastPublish
             /\ lastWarn' <= now]_vars

\* A monitor thread has terminated a stalled subprocess that it, or
\* another thread, warned about in an earlier pass.
C32_Witness ==
    /\ mon["stall_kill"] > 0
    /\ lastWarn > lastPublish
    /\ lastWarn < now

\* A monitor thread returns from a start_ffmpeg_process() call that
\* spawned no subprocess, and so started no thread.
FailedRestart ==
    /\ \/ mon'["stall_start"] < mon["stall_start"]
       \/ mon'["crash_start"] < mon["crash_start"]
    /\ stderrThreads' = stderrThreads

\* C33: when a restart attempt of _monitor_health fails to spawn the new
\* subprocess, the monitor does not report the restart as successful and
\* takes the BACKOFF seconds of backoff before its next pass.
C33_FailedRestartBacksOff ==
    [][FailedRestart => /\ restart'.msg = "retry"
                        /\ restart'.pause = BACKOFF]_vars

\* Threads of the frame-extraction side that are in their loops.
LoopsRunning ==
    readThreads + stderrThreads + mon["tick"] + mon["warn"]
        + mon["warn_stall"] + Restarting

\* C34: after stop_streaming() has set streaming to False, every background
\* loop of the frame-extraction side (_read_frames, _monitor_health,
\* _monitor_stderr) eventually exits, those started after that point
\* included.
C34_LoopsExitAfterStop == (~streaming) ~> (LoopsRunning = 0)

\* The stop_streaming() call of the caller has returned.
StopReturned == ~streaming /\ caller.pc = "idle"

\* C35: once stop_streaming() has completed, every scratch directory that
\* start_ffmpeg_process created during the session is deleted: the one
\* self.temp_dir names and those of earlier starts.
C35_NoScratchDirLeft ==
    StopReturned => (temp_dir # "present" /\ old_dirs = 0)

\* C36: once stop_streaming() has returned and every monitor thread has
\* exited, a restart path that the call overlapped included, no
\* frame-extraction subprocess of the streamer is running.
C36_NoSubprocessAfterStop ==
    (StopReturned /\ MonitorThreads = 0) => AliveProcs = 0

\* C37: a start_recording() call made while streaming is off returns False
\* and changes nothing: the recording flag, the loop threads and the
\* recording subprocesses are what they were. And every recording
\* subprocess is spawned by a loop thread that read self.streaming as True
\* the last time it tested it.
C37_NoRecordingWithoutStreaming ==
    [][/\ (started' = "False" /\ started # "False")
          => UNCHANGED <<recording, loop, rproc, recording_process>>
       /\ \A p \in RPids :
              (rproc[p] = "none" /\ rproc'[p] # "none")
                  => \E l \in LoopIds : /\ loop[l].pc = "spawn"
                                        /\ loop[l].seen
                                        /\ loop'[l].own = p]_vars

\* A call was refused after a recording subprocess had been spawned.
C37_Witness ==
    /\ started = "False"
    /\ \E p \in RPids : rproc[p] # "none"
====
